---- MODULE Spec2Model ----
(***************************************************************************)
(* Random-strategy backtest engine of src/src/simulation.py:               *)
(*   run_simulation_jit            one portfolio over all timesteps        *)
(*   run_all_simulations_parallel  N runs over a prange loop               *)
(* and the probability check of src/run_backtest.py main().                *)
(*                                                                         *)
(* Floating point numbers are modelled as exact rationals [n, d] in lowest *)
(* terms; d = 0 is the not-a-number value, which propagates through        *)
(* arithmetic and makes every comparison false, as in IEEE 754.            *)
(* Indices t (timestep) and i (asset) are 0-based as in the source;        *)
(* sequences are 1-based, so row t of the matrix is prices[t + 1].         *)
(***************************************************************************)
EXTENDS Integers, Sequences, FiniteSets, TLC

VARIABLES
    params,          \* the arguments of the engine (immutable once chosen)
    prices,          \* the price matrix, prices[t + 1][i + 1] (immutable input)
    runs,            \* run id -> local state of that run_simulation_jit call
    thread,          \* worker thread -> the run id it is executing, or Idle
    rng,             \* worker thread -> state of that thread's np.random generator
    batch,           \* where main() / run_all_simulations_parallel stands
    pending,         \* prange indices not yet handed to a thread
    all_histories,   \* result array, slot id -> history
    all_final_pnls,  \* result array, slot id -> final pnl
    writers          \* slot id -> the run ids that stored into it, in order

(***************************************************************************)
(* Bounds of the model.                                                    *)
(***************************************************************************)
NumTimesteps == 2     \* rows of the price matrix
NumCoins == 2         \* columns of the price matrix
MaxSeed == 80         \* a single run is seeded with 0..MaxSeed
RngDigits == 4        \* size of the generator's state, in base-3 digits
MaxSims == 2          \* largest num_simulations
NumThreads == 2       \* worker threads of the prange loop

(***************************************************************************)
(* Rational arithmetic.                                                    *)
(***************************************************************************)
RECURSIVE GCD(_, _)
GCD(a, b) == IF b = 0 THEN a ELSE GCD(b, a % b)

Abs(a) == IF a < 0 THEN -a ELSE a

NaN == [n |-> 0, d |-> 0]

Rat(a, b) ==
    IF b = 0 THEN NaN
    ELSE LET g == GCD(Abs(a), Abs(b))
             s == IF b < 0 THEN -1 ELSE 1
         IN  [n |-> s * (a \div g), d |-> s * (b \div g)]

Zero == Rat(0, 1)
One == Rat(1, 1)

IsNaN(x) == x.d = 0

RNeg(x) == [n |-> -x.n, d |-> x.d]

RAdd(x, y) ==
    IF x.d = 0 \/ y.d = 0 THEN NaN
    ELSE LET g == GCD(x.d, y.d)
         IN  Rat(x.n * (y.d \div g) + y.n * (x.d \div g), x.d * (y.d \div g))

RSub(x, y) == RAdd(x, RNeg(y))

RMul(x, y) ==
    IF x.d = 0 \/ y.d = 0 THEN NaN
    ELSE LET g1 == GCD(Abs(x.n), y.d)
             g2 == GCD(Abs(y.n), x.d)
         IN  Rat((x.n \div g1) * (y.n \div g2), (x.d \div g2) * (y.d \div g1))

\* x / y for y # 0 (the callers test the divisor first)
RDiv(x, y) ==
    IF x.d = 0 \/ y.d = 0 THEN NaN
    ELSE RMul(x, Rat(y.d, y.n))

\* a/b < c/d for a, c >= 0 and b, d > 0, without forming a*d or c*b
RECURSIVE FracLt(_, _, _, _)
FracLt(a, b, c, d) ==
    LET qa == a \div b
        qc == c \div d
        ra == a % b
        rc == c % d
    IN  IF qa # qc THEN qa < qc
        ELSE IF rc = 0 THEN FALSE
        ELSE IF ra = 0 THEN TRUE
        ELSE FracLt(d, rc, b, ra)

RLt(x, y) ==
    IF x.d = 0 \/ y.d = 0 THEN FALSE
    ELSE IF x.n < 0 /\ y.n >= 0 THEN TRUE
    ELSE IF x.n >= 0 /\ y.n < 0 THEN FALSE
    ELSE IF x.n >= 0 THEN FracLt(x.n, x.d, y.n, y.d)
    ELSE FracLt(-y.n, y.d, -x.n, x.d)

RGt(x, y) == RLt(y, x)
RLe(x, y) == x.d # 0 /\ y.d # 0 /\ ~RLt(y, x)
RGe(x, y) == RLe(y, x)

(***************************************************************************)
(* Literals of run_simulation_jit.                                         *)
(***************************************************************************)
\* (variant: any positive amount trades)
MinTradeZero == Rat(0, 1)

MinTrade == Rat(1, 1)            \* the 1.0 of "available_to_deploy > 1.0" and "amount_to_spend > 1.0"
BuyPercLow == Rat(1, 100)        \* the 0.01 of np.random.uniform(0.01, max_buy_perc_power)
Epsilon == Rat(1, 100000000)     \* the 1e-8 of "positions[i] > 1e-8"

Coins == 1..NumCoins

RECURSIVE SumOver(_, _)
\* sum of f[1] .. f[k], accumulated in index order
SumOver(f, k) == IF k = 0 THEN Zero ELSE RAdd(SumOver(f, k - 1), f[k])

(***************************************************************************)
(* run_simulation_jit: the state after the local variables are set up.     *)
(*   pc "loop"  at the head of "for t in range(num_timesteps)"             *)
(*      "asset" at the head of "for i in range(num_coins)" of timestep t   *)
(*      "done"  returned; "raised" left by ZeroDivisionError               *)
(* draws counts the values taken from np.random so far; r and action are   *)
(* the locals of lines 60-66 as the last asset iteration left them.        *)
(* bought_low and bought_high are history fields the code does not keep:   *)
(* the lowest and highest current_price line 83 bought asset c at since    *)
(* positions[c] was last zero (zero while nothing is held).                *)
(***************************************************************************)
InitRun(p) ==
    [pc |-> "loop", t |-> 0, i |-> 0,
     cash |-> p.initial_capital,
     positions |-> [c \in Coins |-> Zero],
     positions_avg_cost |-> [c \in Coins |-> Zero],
     portfolio_value_history |-> [k \in 1..NumTimesteps |-> Zero],
     available_to_deploy |-> Zero,
     final_pnl |-> Zero,
     ruined |-> FALSE,
     r |-> Zero, action |-> 0,
     draws |-> 0,
     bought_low |-> [c \in Coins |-> Zero],
     bought_high |-> [c \in Coins |-> Zero]]

\* current_position_value of lines 37-41
PositionValue(s, row) ==
    SumOver([c \in Coins |-> RMul(s.positions[c], row[c])], NumCoins)

\* mtm_value of lines 36-41
MtmValue(s, row) == RAdd(s.cash, PositionValue(s, row))

\* (variant: the t = 0 case left out, so that index t - 1 = -1 reads the
\* last, still zero, entry of the history)
CarryForwardWrapped(s, p) ==
    IF s.t > 0 THEN s.portfolio_value_history[s.t]
    ELSE s.portfolio_value_history[NumTimesteps]

\* lines 46-49: the value a timestep without a mark-to-market value records
CarryForward(s, p) ==
    IF s.t > 0 THEN s.portfolio_value_history[s.t] ELSE p.initial_capital

\* (variant: ruin already at a value of zero)
RuinAtZero(mtm_value) == RLe(mtm_value, Zero)

\* line 52: the ruin test
Ruin(mtm_value) == RLt(mtm_value, Zero)

\* lines 34-57: the head of one timestep, up to the asset loop
TimestepHead(s, row, p) ==
    LET mtm_value == MtmValue(s, row)
        t == s.t
    IN  IF IsNaN(mtm_value)
        THEN [s EXCEPT !.portfolio_value_history[t + 1] = CarryForward(s, p),
                       !.t = t + 1]
        ELSE IF Ruin(mtm_value)
        THEN [s EXCEPT !.portfolio_value_history =
                           [k \in 1..NumTimesteps |->
                               IF k >= t + 1 THEN mtm_value
                               ELSE s.portfolio_value_history[k]],
                       !.final_pnl = RNeg(p.initial_capital),
                       !.ruined = TRUE,
                       !.pc = "done"]
        ELSE [s EXCEPT !.portfolio_value_history[t + 1] = mtm_value,
                       !.available_to_deploy =
                           RSub(RMul(p.initial_capital, p.leverage),
                                PositionValue(s, row)),
                       !.i = 0,
                       !.pc = "asset"]

\* (variant: the upper end of the buy interval included)
ChooseActionInclusive(r, prob_hold, prob_hold_buy) ==
    IF RGt(r, prob_hold)
    THEN IF RLe(r, prob_hold_buy) THEN 1 ELSE 2
    ELSE 0

\* lines 61-66: 0 hold, 1 buy, 2 sell
ChooseAction(r, prob_hold, prob_hold_buy) ==
    IF RGt(r, prob_hold)
    THEN IF RLt(r, prob_hold_buy) THEN 1 ELSE 2
    ELSE 0

\* np.random.uniform(low, high) from the unit draw u in [0, 1)
Uniform(low, high, u) == RAdd(low, RMul(RSub(high, low), u))

\* the end of one iteration of the asset loop: next asset, or next timestep
NextAsset(s) ==
    IF s.i + 1 < NumCoins
    THEN [s EXCEPT !.i = s.i + 1]
    ELSE [s EXCEPT !.i = 0, !.t = s.t + 1, !.pc = "loop"]

\* (variant: the fee not taken off the amount)
QuantityWithoutFee(amount_to_spend, current_price, p) ==
    RDiv(amount_to_spend, current_price)

\* lines 81-83: the quantity an amount buys, after the fee
QuantityBought(amount_to_spend, current_price, p) ==
    LET fee == RMul(amount_to_spend, p.fee_rate)
        net_spend == RSub(amount_to_spend, fee)
    IN  RDiv(net_spend, current_price)

\* lines 80-97: the purchase, once amount_to_spend > 1.0
Buy(s, c, current_price, amount_to_spend, p) ==
    LET quantity_bought == QuantityBought(amount_to_spend, current_price, p)
        total_cost_of_old_position == RMul(s.positions[c], s.positions_avg_cost[c])
        total_cost_of_new_purchase == RMul(quantity_bought, current_price)
        total_quantity == RAdd(s.positions[c], quantity_bought)
    IN  IF total_quantity = Zero
        THEN [s EXCEPT !.pc = "raised"]     \* ZeroDivisionError at line 89
        ELSE NextAsset(
               [s EXCEPT !.positions_avg_cost[c] =
                             RDiv(RAdd(total_cost_of_old_position,
                                       total_cost_of_new_purchase),
                                  total_quantity),
                         !.cash = RSub(s.cash, amount_to_spend),
                         !.positions[c] = RAdd(s.positions[c], quantity_bought),
                         !.available_to_deploy =
                             RSub(s.available_to_deploy, amount_to_spend),
                         !.bought_low[c] =
                             IF s.positions[c] = Zero
                                  \/ RLt(current_price, s.bought_low[c])
                             THEN current_price ELSE s.bought_low[c],
                         !.bought_high[c] =
                             IF s.positions[c] = Zero
                                  \/ RGt(current_price, s.bought_high[c])
                             THEN current_price ELSE s.bought_high[c]])

\* (variant: the flag ignored)
SellAnyPosition(s, c, current_price, p) == TRUE

\* lines 102-105: whether the sell branch liquidates
SellThisPosition(s, c, current_price, p) ==
    ~(p.avoid_selling_winners /\ RGt(current_price, s.positions_avg_cost[c]))

\* (variant: the average cost of line 116 and line 128 not reset)
SellAllKeepCost(s, c, price, p) ==
    LET sale_value == RMul(s.positions[c], price)
        fee == RMul(sale_value, p.fee_rate)
        cash_received == RSub(sale_value, fee)
    IN  [s EXCEPT !.cash = RAdd(s.cash, cash_received),
                  !.positions[c] = Zero,
                  !.bought_low[c] = Zero,
                  !.bought_high[c] = Zero]

\* lines 108-116 and 121-128: sell all of asset c at the given price
SellAll(s, c, price, p) ==
    LET sale_value == RMul(s.positions[c], price)
        fee == RMul(sale_value, p.fee_rate)
        cash_received == RSub(sale_value, fee)
    IN  [s EXCEPT !.cash = RAdd(s.cash, cash_received),
                  !.positions[c] = Zero,
                  !.positions_avg_cost[c] = Zero,
                  !.bought_low[c] = Zero,
                  !.bought_high[c] = Zero]

\* (variant: only a negative price counts as invalid)
InvalidPriceNegative(current_price) ==
    IsNaN(current_price) \/ RLt(current_price, Zero)

\* line 70: the price test that skips the asset
InvalidPrice(current_price) ==
    IsNaN(current_price) \/ RLe(current_price, Zero)

\* lines 59-116: one iteration of the asset loop, with the draw r of line 60
\* and the draw u line 74 takes when it is reached
AssetStep(s, row, p, r, u) ==
    LET c == s.i + 1
        action == ChooseAction(r, p.prob_hold, RAdd(p.prob_hold, p.prob_buy))
        current_price == row[c]
        s1 == [s EXCEPT !.draws = s.draws + 1, !.r = r, !.action = action]
        s2 == [s1 EXCEPT !.draws = s.draws + 2]
    IN  IF InvalidPrice(current_price)
        THEN NextAsset(s1)
        ELSE IF action = 1 /\ RGt(s.available_to_deploy, MinTrade)
        THEN LET buy_perc == Uniform(BuyPercLow, p.max_buy_perc_power, u)
                 spend == RMul(s.available_to_deploy, buy_perc)
                 amount_to_spend == IF RGt(spend, s.available_to_deploy)
                                    THEN s.available_to_deploy ELSE spend
             IN  IF RGt(amount_to_spend, MinTrade)
                 THEN Buy(s2, c, current_price, amount_to_spend, p)
                 ELSE NextAsset(s2)
        ELSE IF action = 2 /\ RGt(s.positions[c], Epsilon)
        THEN IF SellThisPosition(s, c, current_price, p)
             THEN NextAsset(SellAll(s1, c, current_price, p))
             ELSE NextAsset(s1)
        ELSE NextAsset(s1)

RECURSIVE LiquidateAtAnyPrice(_, _, _, _)
\* (variant: the final loop sells at a last price that is not positive)
LiquidateAtAnyPrice(s, c, last_prices, p) ==
    IF c > NumCoins THEN s
    ELSE LiquidateAtAnyPrice(
           IF /\ RGt(s.positions[c], Epsilon)
              /\ ~IsNaN(last_prices[c])
           THEN SellAll(s, c, last_prices[c], p)
           ELSE s,
           c + 1, last_prices, p)

RECURSIVE LiquidateUnlessWinner(_, _, _, _)
\* (variant: the final loop keeps the test of lines 102-105)
LiquidateUnlessWinner(s, c, last_prices, p) ==
    IF c > NumCoins THEN s
    ELSE LiquidateUnlessWinner(
           IF /\ RGt(s.positions[c], Epsilon)
              /\ ~IsNaN(last_prices[c])
              /\ RGt(last_prices[c], Zero)
              /\ SellThisPosition(s, c, last_prices[c], p)
           THEN SellAll(s, c, last_prices[c], p)
           ELSE s,
           c + 1, last_prices, p)

RECURSIVE LiquidateFrom(_, _, _, _)
\* lines 119-128: the loop over assets c..num_coins after the timestep loop
LiquidateFrom(s, c, last_prices, p) ==
    IF c > NumCoins THEN s
    ELSE LiquidateFrom(
           IF /\ RGt(s.positions[c], Epsilon)
              /\ ~IsNaN(last_prices[c])
              /\ RGt(last_prices[c], Zero)
           THEN SellAll(s, c, last_prices[c], p)
           ELSE s,
           c + 1, last_prices, p)

\* lines 118-131: forced liquidation at prices[-1] and the return
Liquidate(s, last_prices, p) ==
    LET e == LiquidateFrom(s, 1, last_prices, p)
    IN  [e EXCEPT !.final_pnl = RSub(e.cash, p.initial_capital),
                  !.pc = "done"]

(***************************************************************************)
(* np.random.  Numba keeps one generator per thread; np.random.seed inside *)
(* jitted code seeds the generator of the calling thread.  The generator   *)
(* is abstracted to a register of RngDigits base-3 digits: a call returns  *)
(* the grid value the lowest digit selects and rotates the register, so    *)
(* the seeds 0..3^RngDigits-1 give every stream of period RngDigits.       *)
(***************************************************************************)
\* the values np.random hands out, as unit draws in [0, 1)
DrawGrid == <<Rat(0, 1), Rat(49, 99), Rat(74, 99)>>

RECURSIVE Pow3(_)
Pow3(k) == IF k = 0 THEN 1 ELSE 3 * Pow3(k - 1)

RngSeed(seed) == seed % Pow3(RngDigits)
RngOutput(g) == DrawGrid[(g % 3) + 1]
RngAdvance(g) == (g \div 3) + (g % 3) * Pow3(RngDigits - 1)

RECURSIVE RngAdvanceBy(_, _)
RngAdvanceBy(g, k) == IF k = 0 THEN g ELSE RngAdvanceBy(RngAdvance(g), k - 1)

(***************************************************************************)
(* Inputs.                                                                 *)
(***************************************************************************)
Threads == 1..NumThreads
\* what thread[w] holds while thread w executes no iteration
Idle == 0 - 1

\* the price path of one asset, by shape, at timestep t
PathPrice(shape, t) ==
    CASE shape = "flat"    -> Rat(1, 1)
      [] shape = "rising"  -> Rat(t + 1, 1)
      [] shape = "falling" -> Rat(NumTimesteps - t, 1)
      [] shape = "crash"   -> IF t = 0 THEN Rat(2, 1) ELSE Rat(0, 1)
      [] shape = "late"    -> IF t = 0 THEN NaN ELSE Rat(1, 1)
      [] shape = "gap"     -> IF t = NumTimesteps - 1 THEN NaN ELSE Rat(1, 1)

PathShapes == {"flat", "rising", "falling", "crash", "late", "gap"}

MatrixOf(shapes) ==
    [k \in 1..NumTimesteps |-> [c \in Coins |-> PathPrice(shapes[c], k - 1)]]

PriceMatrices == {MatrixOf(sh) : sh \in [Coins -> PathShapes]}

Strategy(fee, lev, avoid, hold, buy, sell) ==
    [initial_capital |-> Rat(4, 1), fee_rate |-> fee,
     max_buy_perc_power |-> Rat(1, 1),
     prob_hold |-> hold, prob_buy |-> buy, prob_sell |-> sell,
     avoid_selling_winners |-> avoid, leverage |-> lev]

\* parameter sets that satisfy the documented ranges
ValidParams ==
    { Strategy(Rat(0, 1), Rat(1, 1), TRUE, Rat(1, 4), Rat(1, 4), Rat(1, 2)),
      Strategy(Rat(1, 4), Rat(4, 1), TRUE, Rat(1, 4), Rat(1, 4), Rat(1, 2)),
      Strategy(Rat(1, 4), Rat(1, 1), FALSE, Rat(1, 4), Rat(1, 4), Rat(1, 2)),
      Strategy(Rat(0, 1), Rat(4, 1), FALSE, Rat(1, 4), Rat(1, 4), Rat(1, 2)),
      Strategy(Rat(1, 4), Rat(4, 1), FALSE, Rat(0, 1), Rat(49, 99), Rat(50, 99)),
      Strategy(Rat(0, 1), Rat(1, 1), TRUE, Rat(49, 99), Rat(0, 1), Rat(50, 99)) }

vars == <<params, prices, runs, thread, rng, batch, pending,
          all_histories, all_final_pnls, writers>>

(***************************************************************************)
(* The steps of a run, taken by the thread that executes it.               *)
(***************************************************************************)
\* batch states in which the threads are executing runs
Running == {"single", "prange"}

\* (variant: one generator for the whole process)
RngShared(w) == 1

\* the generator a thread's np.random calls use: its own
RngOf(w) == w

\* lines 34-57 of the run on thread w
Timestep(w) ==
    LET id == thread[w] IN
    /\ batch \in Running
    /\ id # Idle
    /\ runs[id].pc = "loop"
    /\ runs[id].t < NumTimesteps
    /\ runs' = [runs EXCEPT ![id] =
                  TimestepHead(runs[id], prices[runs[id].t + 1], params.strategy)]
    /\ UNCHANGED <<params, prices, thread, rng, batch, pending,
                   all_histories, all_final_pnls, writers>>

\* lines 59-116 of the run on thread w: one asset, one or two draws
Asset(w) ==
    LET id == thread[w]
        g == rng[RngOf(w)].state
        next == AssetStep(runs[id], prices[runs[id].t + 1], params.strategy,
                          RngOutput(g), RngOutput(RngAdvance(g)))
    IN
    /\ batch \in Running
    /\ id # Idle
    /\ runs[id].pc = "asset"
    /\ runs' = [runs EXCEPT ![id] = next]
    /\ rng' = [rng EXCEPT ![RngOf(w)] =
                 [state |-> RngAdvanceBy(g, next.draws - runs[id].draws),
                  by |-> id]]
    /\ UNCHANGED <<params, prices, thread, batch, pending,
                   all_histories, all_final_pnls, writers>>

\* lines 118-131 of the run on thread w
EndOfRun(w) ==
    LET id == thread[w] IN
    /\ batch \in Running
    /\ id # Idle
    /\ runs[id].pc = "loop"
    /\ runs[id].t = NumTimesteps
    /\ runs' = [runs EXCEPT ![id] =
                  Liquidate(runs[id], prices[NumTimesteps], params.strategy)]
    /\ UNCHANGED <<params, prices, thread, rng, batch, pending,
                   all_histories, all_final_pnls, writers>>

(***************************************************************************)
(* Spec: run_simulation_jit called once on one thread whose generator was  *)
(* seeded just before, for every seed, matrix and valid parameter set.     *)
(***************************************************************************)
Init ==
    /\ \E p \in ValidParams, seed \in 0..MaxSeed :
         params = [strategy |-> p, num_simulations |-> 1, base_seed |-> seed]
    /\ prices \in PriceMatrices
    /\ runs = [id \in {0} |-> InitRun(params.strategy)]
    /\ thread = [w \in Threads |-> IF w = 1 THEN 0 ELSE Idle]
    /\ rng = [w \in Threads |->
                IF w = 1 THEN [state |-> RngSeed(params.base_seed), by |-> 0]
                ELSE [state |-> 0, by |-> Idle]]
    /\ batch = "single"
    /\ pending = {}
    /\ all_histories = <<>>
    /\ all_final_pnls = <<>>
    /\ writers = <<>>

Next ==
    \/ Timestep(1)
    \/ Asset(1)
    \/ EndOfRun(1)

Spec == Init /\ [][Next]_vars

(***************************************************************************)
(* SpecPar: main()'s check of the probabilities, then                      *)
(* run_all_simulations_parallel over NumThreads worker threads.  A thread  *)
(* that is idle takes any index the prange loop has not handed out yet and *)
(* executes that iteration to its end.                                     *)
(***************************************************************************)
RAbs(x) == IF x.n < 0 THEN RNeg(x) ELSE x

\* np.isclose(a, b) with its default rtol = 1e-05 and atol = 1e-08
IsClose(a, b) ==
    RLe(RAbs(RSub(a, b)),
        RAdd(Rat(1, 100000000), RMul(Rat(1, 100000), RAbs(b))))

\* the configuration errors the specification lists
ConfigError(p) ==
    LET sum == RAdd(p.strategy.prob_hold, p.strategy.prob_buy) IN
    \/ RLt(sum, Zero) \/ RGt(sum, One)
    \/ RLe(p.strategy.initial_capital, Zero)
    \/ RLt(p.strategy.leverage, One)
    \/ p.num_simulations <= 0

ParStrategies ==
    { \* within the documented ranges
      Strategy(Rat(1, 4), Rat(4, 1), FALSE, Rat(1, 4), Rat(1, 4), Rat(1, 2)),
      \* fee_rate = 1: a purchase buys a quantity of zero
      Strategy(Rat(1, 1), Rat(1, 1), FALSE, Rat(1, 4), Rat(1, 4), Rat(1, 2)),
      \* leverage < 1
      Strategy(Rat(0, 1), Rat(1, 2), TRUE, Rat(1, 4), Rat(1, 4), Rat(1, 2)),
      \* probabilities that do not sum to 1
      Strategy(Rat(0, 1), Rat(1, 1), TRUE, Rat(1, 4), Rat(1, 4), Rat(1, 4)) }

ParSeeds == {16, 49}
ParShapes == {"flat", "falling"}
\* every asset on the same path
ParMatrices == {MatrixOf([c \in Coins |-> shape]) : shape \in ParShapes}
NumSimsValues == {-1, 0, MaxSims}

InitPar ==
    /\ params \in [strategy : ParStrategies,
                   num_simulations : NumSimsValues,
                   base_seed : ParSeeds]
    /\ prices \in ParMatrices
    /\ runs = <<>>
    /\ thread = [w \in Threads |-> Idle]
    /\ rng = [w \in Threads |-> [state |-> 0, by |-> Idle]]
    /\ batch = "main"
    /\ pending = {}
    /\ all_histories = <<>>
    /\ all_final_pnls = <<>>
    /\ writers = <<>>

\* run_backtest.py lines 51-56, and the call of line 86
MainCheck ==
    /\ batch = "main"
    /\ batch' = IF IsClose(RAdd(RAdd(params.strategy.prob_hold,
                                     params.strategy.prob_buy),
                                params.strategy.prob_sell), One)
                THEN "called" ELSE "rejected"
    /\ UNCHANGED <<params, prices, runs, thread, rng, pending,
                   all_histories, all_final_pnls, writers>>

\* lines 150-155: the result arrays; np.zeros raises on a negative dimension
Allocate ==
    /\ batch = "called"
    /\ IF params.num_simulations < 0
       THEN /\ batch' = "raised"
            /\ UNCHANGED <<pending, all_histories, all_final_pnls, writers>>
       ELSE LET ids == 0..(params.num_simulations - 1) IN
            /\ batch' = "prange"
            /\ pending' = ids
            /\ all_histories' =
                 [id \in ids |-> [k \in 1..NumTimesteps |-> Zero]]
            /\ all_final_pnls' = [id \in ids |-> Zero]
            /\ writers' = [id \in ids |-> <<>>]
    /\ UNCHANGED <<params, prices, runs, thread, rng>>

\* lines 155-158: a thread starts iteration id: seed, then the call
StartRun(w) ==
    /\ batch = "prange"
    /\ thread[w] = Idle
    /\ \E id \in pending :
         /\ pending' = pending \ {id}
         /\ thread' = [thread EXCEPT ![w] = id]
         /\ rng' = [rng EXCEPT ![RngOf(w)] =
                      [state |-> RngSeed(params.base_seed + id), by |-> id]]
         /\ runs' = (id :> InitRun(params.strategy)) @@ runs
    /\ UNCHANGED <<params, prices, batch, all_histories, all_final_pnls, writers>>

\* (variant: every iteration stores into the first slot)
SlotFirst(id) == 0

\* the slot of the result arrays iteration id stores into
SlotOf(id) == id

\* lines 168-169: the returned pair is stored, and the iteration ends
StoreResult(w) ==
    LET id == thread[w] IN
    /\ batch = "prange"
    /\ id # Idle
    /\ runs[id].pc = "done"
    /\ all_histories' = [all_histories EXCEPT
                           ![SlotOf(id)] = runs[id].portfolio_value_history]
    /\ all_final_pnls' = [all_final_pnls EXCEPT
                            ![SlotOf(id)] = runs[id].final_pnl]
    /\ writers' = [writers EXCEPT ![SlotOf(id)] = Append(@, id)]
    /\ thread' = [thread EXCEPT ![w] = Idle]
    /\ UNCHANGED <<params, prices, runs, rng, batch, pending>>

\* the ZeroDivisionError of a run leaves run_all_simulations_parallel:
\* nothing in lines 155-171 catches it
Fault(w) ==
    LET id == thread[w] IN
    /\ batch = "prange"
    /\ id # Idle
    /\ runs[id].pc = "raised"
    /\ batch' = "raised"
    /\ UNCHANGED <<params, prices, runs, thread, rng, pending,
                   all_histories, all_final_pnls, writers>>

\* line 171: every iteration has ended
Return ==
    /\ batch = "prange"
    /\ pending = {}
    /\ \A w \in Threads : thread[w] = Idle
    /\ batch' = "returned"
    /\ UNCHANGED <<params, prices, runs, thread, rng, pending,
                   all_histories, all_final_pnls, writers>>

NextPar ==
    \/ MainCheck
    \/ Allocate
    \/ Return
    \/ \E w \in Threads :
         \/ StartRun(w)
         \/ Timestep(w)
         \/ Asset(w)
         \/ EndOfRun(w)
         \/ StoreResult(w)
         \/ Fault(w)

SpecPar == InitPar /\ [][NextPar]_vars

RECURSIVE RunToEnd(_, _)
\* run_simulation_jit from state s to its return, alone, on a generator of
\* its own in state g
RunToEnd(s, g) ==
    IF s.pc \in {"done", "raised"} THEN s
    ELSE IF s.pc = "loop"
    THEN IF s.t = NumTimesteps
         THEN Liquidate(s, prices[NumTimesteps], params.strategy)
         ELSE RunToEnd(TimestepHead(s, prices[s.t + 1], params.strategy), g)
    ELSE LET next == AssetStep(s, prices[s.t + 1], params.strategy,
                               RngOutput(g), RngOutput(RngAdvance(g)))
         IN  RunToEnd(next, RngAdvanceBy(g, next.draws - s.draws))

\* the result of a sequential run_simulation_jit after np.random.seed(seed)
Sequential(seed) == RunToEnd(InitRun(params.strategy), RngSeed(seed))

(***************************************************************************)
(* Properties of run_all_simulations_parallel (checked under SpecPar).     *)
(***************************************************************************)
\* C1: whatever the threads and the interleaving, what is stored for run id
\* is the result of run_simulation_jit executed alone after
\* np.random.seed(base_seed + id), and the generator a running thread draws
\* from was last written by the run that thread executes.
C1_ParallelEqualsSequential ==
    /\ \A id \in DOMAIN writers :
         writers[id] # <<>> =>
            LET alone == Sequential(params.base_seed + id) IN
            /\ all_histories[id] = alone.portfolio_value_history
            /\ all_final_pnls[id] = alone.final_pnl
    /\ \A w \in Threads :
         thread[w] # Idle => rng[RngOf(w)].by = thread[w]

\* a run that traded has stored its result while another thread is in the
\* middle of another run
C1_Witness ==
    \E id \in DOMAIN writers, w \in Threads :
        /\ writers[id] = <<id>>
        /\ runs[id].cash # params.strategy.initial_capital
        /\ thread[w] \notin {Idle, id}
        /\ runs[thread[w]].pc = "asset"
        /\ runs[thread[w]].draws > 0

\* C2: at the return every slot has been stored into exactly once, by its
\* own run, and holds that run's result, also beside a run that ended in ruin.
C2_SlotsWrittenOnce ==
    batch = "returned" =>
        \A id \in 0..(params.num_simulations - 1) :
            /\ writers[id] = <<id>>
            /\ id \in DOMAIN runs
            /\ runs[id].pc = "done"
            /\ all_histories[id] = runs[id].portfolio_value_history
            /\ all_final_pnls[id] = runs[id].final_pnl

\* the batch has returned; one run ended in ruin and another did not
C2_Witness ==
    /\ batch = "returned"
    /\ \E a, b \in DOMAIN runs :
         /\ runs[a].ruined
         /\ ~runs[b].ruined
         /\ all_final_pnls[a] # all_final_pnls[b]

\* C3: on a configuration error no run is started and no slot is written.
C3_ConfigErrorRejected ==
    ConfigError(params) =>
        /\ DOMAIN runs = {}
        /\ \A id \in DOMAIN writers : writers[id] = <<>>

\* C5: a numeric fault inside one run does not abort the batch.
C5_FaultIsolated ==
    (\E id \in DOMAIN runs : runs[id].pc = "raised") => batch # "raised"

(***************************************************************************)
(* Properties of run_simulation_jit (checked under Spec).                  *)
(***************************************************************************)
RECURSIVE WorthFrom(_, _, _)
\* cash plus the holdings c..NumCoins valued at the prices of row
WorthFrom(s, row, c) ==
    IF c > NumCoins THEN s.cash
    ELSE RAdd(RMul(row[c], s.positions[c]), WorthFrom(s, row, c + 1))

Worth(s, row) == WorthFrom(s, row, 1)

AllValid(row) == \A c \in Coins : ~IsNaN(row[c]) /\ RGt(row[c], Zero)
SomeMissing(row) == \E c \in Coins : IsNaN(row[c])

Increasing(c) ==
    \A k \in 1..(NumTimesteps - 1) : RLt(prices[k][c], prices[k + 1][c])

\* C6: with avoid_selling_winners set and a strictly increasing price path
\* of asset c, no iteration of the asset loop lowers positions[c].
C6_WinnersNotSold ==
    [][\A id \in DOMAIN runs : \A c \in Coins :
          (/\ params.strategy.avoid_selling_winners
           /\ Increasing(c)
           /\ runs[id].pc = "asset") =>
             RGe(runs'[id].positions[c], runs[id].positions[c])]_vars

\* sell was drawn for a held asset whose price path rises strictly, with
\* the flag set
C6_Witness ==
    \E id \in DOMAIN runs :
        LET s == runs[id] IN
        /\ params.strategy.avoid_selling_winners
        /\ s.pc = "asset"
        /\ s.i >= 1
        /\ s.action = 2
        /\ Increasing(s.i)
        /\ RGt(s.positions[s.i], Zero)

\* C7: with all prices of timestep t valid the value recorded for t is
\* cash + sum of positions * price as t begins; an executed buy or sell
\* changes that sum by exactly minus its fee, which is not negative, and
\* any other asset iteration changes neither cash nor positions.
C7_Conservation ==
    [][\A id \in DOMAIN runs :
          LET s == runs[id]
              n == runs'[id]
              p == params.strategy
          IN  /\ (s.pc = "loop" /\ s.t < NumTimesteps /\ n # s
                    /\ AllValid(prices[s.t + 1])) =>
                      n.portfolio_value_history[s.t + 1] =
                          Worth(s, prices[s.t + 1])
              /\ (s.pc = "asset" /\ n # s) =>
                   LET row == prices[s.t + 1]
                       c == s.i + 1
                   IN  IF n.action = 1 /\ n.positions[c] # s.positions[c]
                       THEN LET fee == RMul(RSub(s.cash, n.cash), p.fee_rate)
                            IN  /\ RGt(s.cash, n.cash)
                                /\ RGe(fee, Zero)
                                /\ Worth(n, row) = RSub(Worth(s, row), fee)
                       ELSE IF n.action = 2 /\ n.positions[c] # s.positions[c]
                       THEN LET fee == RMul(RMul(s.positions[c], row[c]),
                                            p.fee_rate)
                            IN  /\ n.positions[c] = Zero
                                /\ RGe(fee, Zero)
                                /\ Worth(n, row) = RSub(Worth(s, row), fee)
                       ELSE /\ n.cash = s.cash
                            /\ n.positions = s.positions
                            /\ n.positions_avg_cost = s.positions_avg_cost]_vars

\* inside the loop, with a fee rate above zero: everything bought has been
\* sold again and the cash is below the initial capital
C7_Witness ==
    \E id \in DOMAIN runs :
        LET s == runs[id] IN
        /\ RGt(params.strategy.fee_rate, Zero)
        /\ s.pc = "asset"
        /\ s.action = 2
        /\ \A c \in Coins : s.positions[c] = Zero
        /\ RLt(s.cash, params.strategy.initial_capital)

\* the assets the final loop sells
Sellable(s, last_prices) ==
    {c \in Coins : /\ RGt(s.positions[c], Rat(1, 100000000))
                   /\ ~IsNaN(last_prices[c])
                   /\ RGt(last_prices[c], Zero)}

RECURSIVE Proceeds(_, _, _, _)
\* what selling the assets 1..c among Sellable brings in, after the fee
Proceeds(s, last_prices, fee_rate, c) ==
    IF c = 0 THEN Zero
    ELSE RAdd(Proceeds(s, last_prices, fee_rate, c - 1),
              IF c \in Sellable(s, last_prices)
              THEN LET value == RMul(s.positions[c], last_prices[c])
                   IN  RSub(value, RMul(value, fee_rate))
              ELSE Zero)

\* C8: after the timestep loop of a run that was not ruined, every asset
\* held above 1e-8 with a valid last price is sold in full at that price
\* for value - value * fee_rate, whatever the flag and the average cost,
\* and final_pnl is the cash after these sales minus initial_capital.
C8_ForcedLiquidation ==
    [][\A id \in DOMAIN runs :
          LET s == runs[id]
              n == runs'[id]
              p == params.strategy
              last == prices[NumTimesteps]
          IN  (s.pc = "loop" /\ s.t = NumTimesteps /\ n # s) =>
                /\ n.pc = "done"
                /\ ~n.ruined
                /\ \A c \in Coins :
                     IF c \in Sellable(s, last)
                     THEN /\ n.positions[c] = Zero
                          /\ n.positions_avg_cost[c] = Zero
                     ELSE /\ n.positions[c] = s.positions[c]
                          /\ n.positions_avg_cost[c] = s.positions_avg_cost[c]
                /\ n.cash = RAdd(s.cash, Proceeds(s, last, p.fee_rate, NumCoins))
                /\ n.final_pnl = RSub(n.cash, p.initial_capital)
                /\ n.portfolio_value_history = s.portfolio_value_history]_vars

\* a run with the flag set has returned with a profit, which only the
\* final sale of a position above its average cost can bring
C8_Witness ==
    \E id \in DOMAIN runs :
        /\ params.strategy.avoid_selling_winners
        /\ runs[id].pc = "done"
        /\ ~runs[id].ruined
        /\ RGt(runs[id].final_pnl, Zero)

\* C9: a timestep with a missing price records the previous value, or
\* initial_capital at t = 0, changes neither cash, positions, average costs
\* nor the random stream, and the run goes on with t + 1; with a missing
\* value in the first row value_history[0] is initial_capital.
C9_MissingSkipped ==
    /\ [](\A id \in DOMAIN runs :
            (SomeMissing(prices[1]) /\ runs[id].t >= 1) =>
               /\ runs[id].portfolio_value_history[1] =
                     params.strategy.initial_capital
               /\ runs[id].pc # "raised")
    /\ [][\A id \in DOMAIN runs :
            LET s == runs[id]
                n == runs'[id]
            IN  (s.pc = "loop" /\ s.t < NumTimesteps /\ n # s
                   /\ SomeMissing(prices[s.t + 1])) =>
                  /\ n.portfolio_value_history =
                       [s.portfolio_value_history EXCEPT ![s.t + 1] =
                          IF s.t > 0 THEN s.portfolio_value_history[s.t]
                          ELSE params.strategy.initial_capital]
                  /\ n = [s EXCEPT !.portfolio_value_history =
                                       n.portfolio_value_history,
                                   !.t = s.t + 1]
                  /\ rng' = rng]_vars

\* the last timestep had a missing price while a position was open, and
\* the loop has gone past it
C9_Witness ==
    \E id \in DOMAIN runs :
        LET s == runs[id] IN
        /\ s.pc = "loop"
        /\ s.t = NumTimesteps
        /\ SomeMissing(prices[NumTimesteps])
        /\ \E c \in Coins : RGt(s.positions[c], Zero)
        /\ s.portfolio_value_history[NumTimesteps] =
              s.portfolio_value_history[NumTimesteps - 1]

\* C10 (as amended): buy exactly when prob_hold < r < prob_hold + prob_buy,
\* sell exactly when r > prob_hold and r >= prob_hold + prob_buy, hold
\* exactly when r <= prob_hold.
C10_ActionIntervals ==
    \A id \in DOMAIN runs :
        runs[id].draws > 0 =>
           LET r == runs[id].r
               action == runs[id].action
               hold == params.strategy.prob_hold
               hold_buy == RAdd(params.strategy.prob_hold,
                                params.strategy.prob_buy)
           IN  /\ action = 1 <=> (RGt(r, hold) /\ RLt(r, hold_buy))
               /\ action = 2 <=> (RGt(r, hold) /\ RGe(r, hold_buy))
               /\ action = 0 <=> RLe(r, hold)

\* C10 (as stated): buy exactly when prob_hold < r <= prob_hold + prob_buy,
\* sell exactly when r > prob_hold + prob_buy, hold otherwise.
C10_AsStated ==
    \A id \in DOMAIN runs :
        runs[id].draws > 0 =>
           LET r == runs[id].r
               action == runs[id].action
               hold == params.strategy.prob_hold
               hold_buy == RAdd(params.strategy.prob_hold,
                                params.strategy.prob_buy)
           IN  /\ action = 1 <=> (RGt(r, hold) /\ RLe(r, hold_buy))
               /\ action = 2 <=> RGt(r, hold_buy)
               /\ action = 0 <=> RLe(r, hold)

\* a draw equal to prob_hold + prob_buy, with prob_buy > 0
C10_Witness ==
    \E id \in DOMAIN runs :
        /\ runs[id].draws > 0
        /\ RGt(params.strategy.prob_buy, Zero)
        /\ runs[id].r = RAdd(params.strategy.prob_hold,
                             params.strategy.prob_buy)
        /\ runs[id].action = 2

\* the asset loop moves from asset s.i to the next index, or leaves the
\* timestep after the last one
AscendingOrder(s, n) ==
    \/ n.pc = "asset" /\ n.t = s.t /\ n.i = s.i + 1
    \/ s.i = NumCoins - 1 /\ n.pc = "loop" /\ n.t = s.t + 1 /\ n.i = 0

\* every thread running run id has moved its generator on by k draws
StreamAdvanced(id, k) ==
    \A w \in Threads :
        thread[w] = id => rng'[w].state = RngAdvanceBy(rng[w].state, k)

\* C11: within a trading timestep assets are processed in ascending index;
\* every asset, valid-priced or not, consumes exactly one action-selection
\* draw; an asset whose price is missing or <= 0 is then skipped, leaving
\* cash, positions, average costs and available_to_deploy unchanged and the
\* random stream one draw further; a second draw is taken only when the
\* action is buy.
C11_OneDrawPerAsset ==
    [][\A id \in DOMAIN runs :
         LET s == runs[id]
             n == runs'[id]
             k == n.draws - s.draws
             current_price == prices[s.t + 1][s.i + 1]
         IN  /\ (s.pc = "loop" /\ n.pc = "asset") => n.i = 0
             /\ (s.pc = "asset" /\ n # s) =>
                  /\ AscendingOrder(s, n)
                  /\ StreamAdvanced(id, k)
                  /\ k \in {1, 2}
                  /\ k = 2 => n.action = 1
                  /\ (IsNaN(current_price) \/ RLe(current_price, Zero)) =>
                       /\ k = 1
                       /\ n.cash = s.cash
                       /\ n.positions = s.positions
                       /\ n.positions_avg_cost = s.positions_avg_cost
                       /\ n.available_to_deploy = s.available_to_deploy]_vars

\* C11 (as stated): an asset whose price is missing or <= 0 is skipped before
\* anything is drawn for it, so its step leaves the position of the random
\* stream unchanged as well; every valid-priced asset consumes one draw, and
\* a second only when the action is buy.
C11_AsStated ==
    [][\A id \in DOMAIN runs :
         LET s == runs[id]
             n == runs'[id]
             k == n.draws - s.draws
             current_price == prices[s.t + 1][s.i + 1]
         IN  (s.pc = "asset" /\ n # s) =>
                /\ AscendingOrder(s, n)
                /\ StreamAdvanced(id, k)
                /\ IF IsNaN(current_price) \/ RLe(current_price, Zero)
                   THEN /\ k = 0
                        /\ n.cash = s.cash
                        /\ n.positions = s.positions
                        /\ n.positions_avg_cost = s.positions_avg_cost
                        /\ n.available_to_deploy = s.available_to_deploy
                   ELSE /\ k \in {1, 2}
                        /\ k = 2 => n.action = 1]_vars

\* the asset just processed had price <= 0 in a trading timestep, a buy was
\* drawn for it, and the asset before it in the same timestep was bought
C11_Witness ==
    \E id \in DOMAIN runs :
        LET s == runs[id] IN
        /\ s.pc = "loop"
        /\ s.t >= 1
        /\ ~SomeMissing(prices[s.t])
        /\ RLe(prices[s.t][NumCoins], Zero)
        /\ s.action = 1
        /\ s.draws >= NumCoins
        /\ RGt(s.positions[1], Zero)

\* C12: a buy executes only when the remaining available_to_deploy > 1.0
\* and the amount > 1.0; the amount is at most the remaining
\* available_to_deploy and reduces it by exactly that amount for the later
\* assets; a step that buys nothing leaves the budget alone.  The budget of
\* a timestep starts at initial_capital * leverage minus the position value,
\* so it never goes below zero once a buy has happened and the amounts of a
\* timestep sum to at most the starting budget; with a starting budget
\* <= 1.0 no buy happens at that timestep.
C12_BuyBudget ==
    [][\A id \in DOMAIN runs :
         LET s == runs[id]
             n == runs'[id]
             p == params.strategy
             amount == RSub(s.cash, n.cash)
         IN  /\ (s.pc = "loop" /\ n.pc = "asset") =>
                  n.available_to_deploy =
                     RSub(RMul(p.initial_capital, p.leverage),
                          PositionValue(s, prices[s.t + 1]))
             /\ (s.pc = "asset" /\ n # s) =>
                  IF RLt(n.cash, s.cash)
                  THEN /\ RGt(s.available_to_deploy, Rat(1, 1))
                       /\ RGt(amount, Rat(1, 1))
                       /\ RLe(amount, s.available_to_deploy)
                       /\ n.available_to_deploy =
                             RSub(s.available_to_deploy, amount)
                       /\ RGe(n.available_to_deploy, Zero)
                       /\ RGt(n.positions[s.i + 1], s.positions[s.i + 1])
                  ELSE /\ n.available_to_deploy = s.available_to_deploy
                       /\ \A c \in Coins :
                            RLe(n.positions[c], s.positions[c])]_vars

\* the first timestep bought every asset, one after the other out of the
\* same budget, and what is left of that budget is below what it started at
C12_Witness ==
    \E id \in DOMAIN runs :
        LET s == runs[id]
            p == params.strategy
        IN  /\ s.pc = "loop"
            /\ s.t = 1
            /\ \A c \in Coins : RGt(s.positions[c], Zero)
            /\ RGe(s.available_to_deploy, Zero)
            /\ RLt(s.available_to_deploy,
                   RSub(RMul(p.initial_capital, p.leverage), Rat(2, 1)))

\* C13: in every state of a run, for every asset: positions >= 0; a zero
\* position has a zero average cost; and the average cost of an open
\* position lies between the lowest and the highest price the asset was
\* bought at since its position was last zero.
C13_PositionsAndCosts ==
    \A id \in DOMAIN runs :
        \A c \in Coins :
            LET s == runs[id] IN
            /\ RGe(s.positions[c], Zero)
            /\ s.positions[c] = Zero => s.positions_avg_cost[c] = Zero
            /\ RGt(s.positions[c], Zero) =>
                 /\ RLe(s.bought_low[c], s.positions_avg_cost[c])
                 /\ RLe(s.positions_avg_cost[c], s.bought_high[c])

\* an asset was bought at two different prices without a sale in between,
\* so its average cost is strictly inside the range, while another asset
\* is not held and the last draw was a sell
C13_Witness ==
    \E id \in DOMAIN runs :
        LET s == runs[id] IN
        \E c, e \in Coins :
            /\ RGt(s.positions[c], Zero)
            /\ RLt(s.bought_low[c], s.positions_avg_cost[c])
            /\ RLt(s.positions_avg_cost[c], s.bought_high[c])
            /\ s.positions[e] = Zero
            /\ s.draws > s.i + 1
            /\ s.action = 2

\* the assets the final loop leaves as they are
Unsold(s, last_prices) ==
    {c \in Coins : \/ IsNaN(last_prices[c])
                   \/ RLe(last_prices[c], Zero)
                   \/ RLe(s.positions[c], Rat(1, 100000000))}

\* C14: the end-of-run liquidation looks only at the last row of the price
\* matrix: an asset whose last-row price is missing or <= 0, or whose
\* quantity is at most 1e-8, is not sold, whatever its earlier prices; its
\* position and average cost are the same when the run returns, and
\* final_pnl = cash - initial_capital holds nothing for it.
C14_LastRowOnly ==
    /\ [][\A id \in DOMAIN runs :
            LET s == runs[id]
                n == runs'[id]
                p == params.strategy
                last == prices[NumTimesteps]
            IN  (s.pc = "loop" /\ s.t = NumTimesteps /\ n # s) =>
                  /\ \A c \in Unsold(s, last) :
                       /\ n.positions[c] = s.positions[c]
                       /\ n.positions_avg_cost[c] = s.positions_avg_cost[c]
                  /\ Unsold(s, last) = Coins => n.cash = s.cash
                  /\ n.final_pnl =
                        RSub(RAdd(s.cash,
                                  Proceeds(s, last, p.fee_rate, NumCoins)),
                             p.initial_capital)]_vars
    /\ [](\A id \in DOMAIN runs :
            LET s == runs[id] IN
            (s.pc = "done" /\ ~s.ruined) =>
               /\ s.final_pnl = RSub(s.cash, params.strategy.initial_capital)
               /\ \A c \in Coins :
                    RGt(s.positions[c], Rat(1, 100000000)) =>
                       (IsNaN(prices[NumTimesteps][c])
                          \/ RLe(prices[NumTimesteps][c], Zero)))

\* a run that was not ruined has returned still holding an asset that had
\* a valid price earlier and has none in the last row
C14_Witness ==
    \E id \in DOMAIN runs :
        LET s == runs[id] IN
        /\ s.pc = "done"
        /\ ~s.ruined
        /\ s.final_pnl = RSub(s.cash, params.strategy.initial_capital)
        /\ \E c \in Coins :
             /\ RGt(s.positions[c], Zero)
             /\ RGt(s.positions_avg_cost[c], Zero)
             /\ RLe(prices[NumTimesteps][c], Zero)
             /\ \E t \in 1..(NumTimesteps - 1) : RGt(prices[t][c], Zero)

====
